---- MODULE Spec2Model ----
(***************************************************************************)
(* Authentication / session subsystem of bedrud-backend: the users table,  *)
(* the blocked_refresh_tokens table, the JWT codec, the auth service, the  *)
(* HTTP handlers in front of it, the access guard, the OAuth callback and  *)
(* the user-management CLI.                                                *)
(*                                                                         *)
(* Time is counted in days.  A JWT is modelled by its claims together with *)
(* the key that signed it; a string that is no JWT at all is a token with  *)
(* wf = FALSE.  uuid.New() is a fresh number.                              *)
(***************************************************************************)
EXTENDS Integers, Sequences, FiniteSets, TLC

\* ---------------------------------------------------------------- bounds
MaxTime == 8
MaxUsers == 1
MaxMints == 2
MaxInFlight == 2

\* ------------------------------------------------------ program constants
HoursPerDay == 24
TokenDuration == 24
RefreshTokenDays == 7

AccessTTL == TokenDuration \div HoursPerDay
RefreshTTL == RefreshTokenDays

\* The instants at which requests are observed: day 0, the day the access
\* tokens of day 0 expire, and the days from the expiry of the refresh
\* tokens of day 0 on
ClockValues == {0, AccessTTL} \cup (RefreshTTL..MaxTime)

JWTSecret == "secret"

StatusOK == 200
StatusBadRequest == 400
StatusUnauthorized == 401
StatusForbidden == 403
StatusNotFound == 404
StatusInternalServerError == 500

\* ------------------------------------------------------------ input sets
Emails == {"a@x.com", "b@x.com"}
GoodPassword == "pw"
Passwords == {GoodPassword, "wrong"}
OAuthEmails == {"b@x.com"}
OAuthProvider == "google"

\* gothUser.UserID: the identifier the OAuth provider assigns to an account
GothUserID(email) == IF email = "a@x.com" THEN 101 ELSE 102

\* A capability label is a string, here a sequence of symbols; "," is the
\* symbol that StringArray uses as separator.
AccessUser == <<"user">>
AccessAdmin == <<"admin">>
AccessSuperAdmin == <<"superadmin">>

\* The labels the program names, and the capability sets an administrative
\* update can write
Labels == {AccessUser, AccessAdmin, AccessSuperAdmin}
CapabilityLists ==
    {<<>>, <<AccessUser>>, <<AccessAdmin>>, <<AccessSuperAdmin>>,
     <<AccessUser, AccessAdmin>>, <<AccessUser, AccessAdmin, AccessSuperAdmin>>}

VARIABLES
    now,        \* time.Now(), in days
    users,      \* table users: ID -> row
    blocked,    \* table blocked_refresh_tokens: set of rows
    nextUserID, \* uuid.New() for users: number of user ids handed out
    minted,     \* number of token-minting requests served (uuid.New() for jti)
    issued,     \* tokens that were sent to a client in some response
    loggedOut,  \* refresh tokens for which a logout request answered 200
    last,       \* the last request that changed the database or returned
                \* tokens: its operation and its status
    purgeAt,    \* CleanupBlockedTokens in flight: the time.Now() it took as
                \* the argument of its DELETE, or NotPurging
    query,      \* IsRefreshTokenBlocked in flight or answered: its token, the
                \* time.Now() it took as the argument of its SELECT, its result
    inflight    \* requests being served concurrently, between their read
                \* of the database and their write: slot -> request

vars ==
    <<now, users, blocked, nextUserID, minted, issued, loggedOut, last,
      purgeAt, query, inflight>>

\* ------------------------------------------------------------ StringArray
RECURSIVE Join(_)
Join(sa) ==
    IF Len(sa) = 0 THEN <<>>
    ELSE IF Len(sa) = 1 THEN sa[1]
    ELSE sa[1] \o <<",">> \o Join(Tail(sa))

RECURSIVE Split(_)
Split(s) ==
    IF \A i \in 1..Len(s) : s[i] # "," THEN <<s>>
    ELSE LET i == CHOOSE k \in 1..Len(s) :
                      s[k] = "," /\ \A j \in 1..(k - 1) : s[j] # ","
         IN  <<SubSeq(s, 1, i - 1)>> \o Split(SubSeq(s, i + 1, Len(s)))

\* StringArray.Value: "{" + strings.Join(sa, ",") + "}"
Value(sa) == <<"{">> \o Join(sa) \o <<"}">>

\* Mutant of Scan: the braces are not stripped
ScanNoStrip(v) == IF v = <<>> THEN <<>> ELSE Split(v)

\* StringArray.Scan: strip the braces, split by comma
Scan(v) ==
    LET str == SubSeq(v, 2, Len(v) - 1)
    IN  IF str = <<>> THEN <<>> ELSE Split(str)

\* ------------------------------------------------------------ Token codec
NoToken == <<>>

Malformed ==
    [wf |-> FALSE, key |-> "", UserID |-> 0, Email |-> "", Provider |-> "",
     Accesses |-> <<>>, ExpiresAt |-> 0, IssuedAt |-> 0, ID |-> 0]

\* GenerateToken: an access token, valid TokenDuration hours, no jti
GenerateToken(userID, email, provider, accesses, clock) ==
    [wf |-> TRUE, key |-> JWTSecret, UserID |-> userID, Email |-> email,
     Provider |-> provider, Accesses |-> accesses,
     ExpiresAt |-> clock + AccessTTL, IssuedAt |-> clock, ID |-> 0]

\* GenerateTokenPair: the access token and a refresh token valid 7 days with a
\* fresh uuid as jti; both carry provider "local"
GenerateTokenPair(userID, email, accesses, clock, jti) ==
    << GenerateToken(userID, email, "local", accesses, clock),
       [wf |-> TRUE, key |-> JWTSecret, UserID |-> userID, Email |-> email,
        Provider |-> "local", Accesses |-> accesses,
        ExpiresAt |-> clock + RefreshTTL, IssuedAt |-> clock, ID |-> jti] >>

\* Mutant of ParseWithClaims: exp is not validated
ParseWithClaimsNoExp(t, clock) ==
    /\ t.wf
    /\ t.key = JWTSecret

\* jwt.ParseWithClaims with the server secret: the token parses, its HMAC
\* verifies under the secret and its exp lies after the current time
ParseWithClaims(t, clock) ==
    /\ t.wf
    /\ t.key = JWTSecret
    /\ clock < t.ExpiresAt

\* The error jwt.ParseWithClaims returns, in the order the parser works:
\* decode the segments, verify the signature, validate exp
ErrTokenMalformed == "token is malformed"
ErrTokenSignatureInvalid == "signature is invalid"
ErrTokenExpired == "token is expired"
CodecErrors == {ErrTokenMalformed, ErrTokenSignatureInvalid, ErrTokenExpired}

ParseError(t, clock) ==
    IF ~t.wf THEN ErrTokenMalformed
    ELSE IF t.key # JWTSecret THEN ErrTokenSignatureInvalid
    ELSE IF ~(clock < t.ExpiresAt) THEN ErrTokenExpired
    ELSE ""

\* ValidateToken: err = "" and the claims, or the parser's error
ValidateToken(t, clock) ==
    IF ParseWithClaims(t, clock)
    THEN [err |-> "", claims |-> t]
    ELSE [err |-> ParseError(t, clock), claims |-> Malformed]

\* What a client can present: a token it was given, the same claims signed
\* with another key, or a string that is no token
Forge(t) == [t EXCEPT !.key = "other"]
Presentable == issued \cup {Forge(t) : t \in issued} \cup {Malformed}

\* ------------------------------------------------------------- Repository
NoPassword == <<>>

\* bcrypt.GenerateFromPassword / bcrypt.CompareHashAndPassword: a salted
\* one-way hash; comparison succeeds only for the password that was hashed,
\* and fails on the empty hash of an OAuth identity
GenerateFromPassword(password) == <<"bcrypt", password>>
CompareHashAndPassword(hash, password) == Len(hash) = 2 /\ hash[2] = password

MinID(ids) == CHOOSE i \in ids : \A j \in ids : i <= j

\* UserRepository.GetUserByEmail: the first row (by primary key) with this
\* email, whatever its provider; <<>> when there is none
GetUserByEmail(us, email) ==
    LET ids == {i \in DOMAIN us : us[i].Email = email}
    IN  IF ids = {} THEN <<>> ELSE <<us[MinID(ids)]>>

\* UserRepository.GetUserByEmailAndProvider
GetUserByEmailAndProvider(us, email, provider) ==
    LET ids == {i \in DOMAIN us : us[i].Email = email /\ us[i].Provider = provider}
    IN  IF ids = {} THEN <<>> ELSE <<us[MinID(ids)]>>

\* UserRepository.GetUserByID
GetUserByID(us, id) == IF id \in DOMAIN us THEN <<us[id]>> ELSE <<>>

\* Mutant of CreateUser: the email column has no unique index
CreateUserNoIndex(us, user) ==
    IF user.ID \in DOMAIN us
    THEN [err |-> "duplicate key", users |-> us]
    ELSE [err |-> "",
          users |-> [i \in DOMAIN us \cup {user.ID} |->
                        IF i = user.ID THEN user ELSE us[i]]]

\* UserRepository.CreateUser: INSERT; the primary key and the unique index on
\* email (User.Email `uniqueIndex`) reject a duplicate
CreateUser(us, user) ==
    IF user.ID \in DOMAIN us \/ \E i \in DOMAIN us : us[i].Email = user.Email
    THEN [err |-> "duplicate key", users |-> us]
    ELSE [err |-> "",
          users |-> [i \in DOMAIN us \cup {user.ID} |->
                        IF i = user.ID THEN user ELSE us[i]]]

\* Mutant of UpdateRefreshToken: nothing is written
UpdateRefreshTokenNoWrite(us, userID, refreshToken) == us

\* UserRepository.UpdateRefreshToken: UPDATE users SET refresh_token WHERE id;
\* updating no row is not an error
UpdateRefreshToken(us, userID, refreshToken) ==
    IF userID \in DOMAIN us
    THEN [us EXCEPT ![userID].RefreshToken = <<refreshToken>>]
    ELSE us

\* UserRepository.UpdateUser: db.Save writes every column of the row
UpdateUser(us, user) ==
    [i \in DOMAIN us \cup {user.ID} |-> IF i = user.ID THEN user ELSE us[i]]

MaxBlockedID(bl) ==
    IF bl = {} THEN 0
    ELSE CHOOSE m \in {b.ID : b \in bl} : \A b \in bl : b.ID <= m

\* Mutant of RepoBlockRefreshToken: the token column has no unique index
RepoBlockRefreshTokenNoIndex(bl, userID, token, expiresAt) ==
    [err |-> "",
     blocked |-> bl \cup {[ID |-> MaxBlockedID(bl) + 1, Token |-> token,
                           UserID |-> userID, ExpiresAt |-> expiresAt]}]

\* UserRepository.BlockRefreshToken: INSERT with a fresh uuid; the unique
\* index on token (BlockedRefreshToken.Token `uniqueIndex`) rejects a
\* token that already has a row
RepoBlockRefreshToken(bl, userID, token, expiresAt) ==
    IF \E b \in bl : b.Token = token
    THEN [err |-> "duplicate key", blocked |-> bl]
    ELSE [err |-> "",
          blocked |-> bl \cup {[ID |-> MaxBlockedID(bl) + 1, Token |-> token,
                                UserID |-> userID, ExpiresAt |-> expiresAt]}]

\* Mutant of IsRefreshTokenBlocked: the rows are matched by user id
IsRefreshTokenBlockedByUser(bl, token, clock) ==
    \E b \in bl : b.UserID = token.UserID /\ b.ExpiresAt > clock

\* UserRepository.IsRefreshTokenBlocked: count(token = ? AND expires_at > now) > 0
IsRefreshTokenBlocked(bl, token, clock) ==
    \E b \in bl : b.Token = token /\ b.ExpiresAt > clock

\* Mutant of CleanupBlockedTokens: DELETE WHERE expires_at <= now
CleanupBlockedTokensInclusive(bl, clock) == {b \in bl : ~(b.ExpiresAt <= clock)}

\* UserRepository.CleanupBlockedTokens: DELETE WHERE expires_at < now
CleanupBlockedTokens(bl, clock) == {b \in bl : ~(b.ExpiresAt < clock)}

\* UserRepository.DeleteUser: the user's blocked_refresh_tokens rows, then
\* the user row
DeleteUser(us, bl, userID) ==
    [blocked |-> {b \in bl : b.UserID # userID},
     users |-> [i \in DOMAIN us \ {userID} |-> us[i]]]

\* UserRepository.CreateOrUpdateUser: Where(email, provider).Assign(user).
\* FirstOrCreate(user): a found row gets the non-zero fields of user (ID,
\* Email, Provider, Accesses); otherwise user is inserted, IsActive taking
\* its column default true
CreateOrUpdateUser(us, user) ==
    LET found == GetUserByEmailAndProvider(us, user.Email, user.Provider)
    IN  IF found # <<>>
        THEN LET row == [found[1] EXCEPT !.ID = user.ID,
                                        !.Accesses = user.Accesses]
                 rest == [i \in DOMAIN us \ {found[1].ID} |-> us[i]]
             IN  [err |-> "", users |-> UpdateUser(rest, row)]
        ELSE CreateUser(us, [user EXCEPT !.IsActive = TRUE])

\* The write of FirstOrCreate, which follows its SELECT as a statement of its
\* own: found is what the SELECT returned.  A found row is updated where its
\* primary key and the conditions (email, provider) still match, and an
\* UPDATE of no row is not an error; otherwise user is inserted
FirstOrCreateWrite(us, user, found) ==
    IF found # <<>>
    THEN IF /\ found[1].ID \in DOMAIN us
            /\ us[found[1].ID].Email = user.Email
            /\ us[found[1].ID].Provider = user.Provider
         THEN LET row == [us[found[1].ID] EXCEPT !.ID = user.ID,
                                                !.Accesses = user.Accesses]
                  rest == [i \in DOMAIN us \ {found[1].ID} |-> us[i]]
              IN  [err |-> "", users |-> UpdateUser(rest, row)]
         ELSE [err |-> "", users |-> us]
    ELSE CreateUser(us, [user EXCEPT !.IsActive = TRUE])

\* ----------------------------------------------------------- Auth service
NoUser ==
    [ID |-> 0, Email |-> "", Provider |-> "", Password |-> NoPassword,
     RefreshToken |-> NoToken, Accesses |-> Value(<<>>), IsActive |-> FALSE]

\* Mutant of ServiceRegister: the existing user is not looked up
ServiceRegisterNoCheck(us, email, password, id) ==
    LET user == [ID |-> id, Email |-> email, Provider |-> "local",
                 Password |-> GenerateFromPassword(password),
                 RefreshToken |-> NoToken,
                 Accesses |-> Value(<<AccessUser>>), IsActive |-> TRUE]
        created == CreateUser(us, user)
    IN  IF created.err # ""
        THEN [err |-> created.err, user |-> NoUser, users |-> us]
        ELSE [err |-> "", user |-> user, users |-> created.users]

\* AuthService.Register
ServiceRegister(us, email, password, id) ==
    LET existingUser == GetUserByEmail(us, email)
        user == [ID |-> id, Email |-> email, Provider |-> "local",
                 Password |-> GenerateFromPassword(password),
                 RefreshToken |-> NoToken,
                 Accesses |-> Value(<<AccessUser>>), IsActive |-> TRUE]
        created == CreateUser(us, user)
    IN  IF existingUser # <<>>
        THEN [err |-> "user already exists", user |-> NoUser, users |-> us]
        ELSE IF created.err # ""
        THEN [err |-> created.err, user |-> NoUser, users |-> us]
        ELSE [err |-> "", user |-> user, users |-> created.users]

\* Mutant of ServiceLogin: the refresh token is not saved
ServiceLoginNoPersist(us, email, password, clock, jti) ==
    LET found == GetUserByEmail(us, email)
        user == found[1]
        pair == GenerateTokenPair(user.ID, user.Email, Scan(user.Accesses), clock, jti)
    IN  IF found = <<>>
        THEN [err |-> "user not found", user |-> NoUser, tokens |-> <<>>, users |-> us]
        ELSE IF ~CompareHashAndPassword(user.Password, password)
        THEN [err |-> "invalid password", user |-> NoUser, tokens |-> <<>>, users |-> us]
        ELSE [err |-> "", user |-> user, tokens |-> pair, users |-> us]

\* AuthService.Login
ServiceLogin(us, email, password, clock, jti) ==
    LET found == GetUserByEmail(us, email)
        user == found[1]
        pair == GenerateTokenPair(user.ID, user.Email, Scan(user.Accesses), clock, jti)
    IN  IF found = <<>>
        THEN [err |-> "user not found", user |-> NoUser, tokens |-> <<>>, users |-> us]
        ELSE IF ~CompareHashAndPassword(user.Password, password)
        THEN [err |-> "invalid password", user |-> NoUser, tokens |-> <<>>, users |-> us]
        ELSE [err |-> "", user |-> user, tokens |-> pair,
              users |-> UpdateRefreshToken(us, user.ID, pair[2])]

\* Mutant of BlockRefreshToken: the token is blocked without being parsed
BlockRefreshTokenNoParse(bl, userID, refreshToken, clock) ==
    RepoBlockRefreshToken(bl, userID, refreshToken, refreshToken.ExpiresAt)

\* Mutant of BlockRefreshToken: the row expires at the time of the logout
BlockRefreshTokenExpiresNow(bl, userID, refreshToken, clock) ==
    IF ~ParseWithClaims(refreshToken, clock)
    THEN [err |-> "invalid refresh token", blocked |-> bl]
    ELSE RepoBlockRefreshToken(bl, userID, refreshToken, clock)

\* AuthService.BlockRefreshToken (AuthService.Logout has the same body)
BlockRefreshToken(bl, userID, refreshToken, clock) ==
    IF ~ParseWithClaims(refreshToken, clock)
    THEN [err |-> "invalid refresh token", blocked |-> bl]
    ELSE RepoBlockRefreshToken(bl, userID, refreshToken, refreshToken.ExpiresAt)

\* Mutant of ValidateRefreshToken: only the blocklist is consulted
ValidateRefreshTokenNoVerify(bl, refreshToken, clock) ==
    IF IsRefreshTokenBlocked(bl, refreshToken, clock)
    THEN [err |-> "refresh token has been revoked", claims |-> Malformed]
    ELSE [err |-> "", claims |-> refreshToken]

\* AuthService.ValidateRefreshToken: the blocklist first, then the codec
ValidateRefreshToken(bl, refreshToken, clock) ==
    IF IsRefreshTokenBlocked(bl, refreshToken, clock)
    THEN [err |-> "refresh token has been revoked", claims |-> Malformed]
    ELSE ValidateToken(refreshToken, clock)

\* Mutant of UpdateUserAccesses: the changed row is not saved
UpdateUserAccessesNoSave(us, userID, accesses) ==
    LET found == GetUserByID(us, userID)
    IN  IF found = <<>>
        THEN [err |-> "nil pointer dereference", users |-> us]
        ELSE [err |-> "", users |-> us]

\* AuthService.UpdateUserAccesses: the row is read by id, its accesses are
\* replaced and the row is saved; a missing user is a nil *User, and the
\* assignment to its field panics
UpdateUserAccesses(us, userID, accesses) ==
    LET found == GetUserByID(us, userID)
    IN  IF found = <<>>
        THEN [err |-> "nil pointer dereference", users |-> us]
        ELSE [err |-> "",
              users |-> UpdateUser(us, [found[1] EXCEPT
                                           !.Accesses = Value(accesses)])]

\* ------------------------------------------------------------------ Guard
NoHeader == [present |-> FALSE, prefix |-> "", token |-> Malformed]

\* The Authorization headers a client can send: none, or a prefix followed
\* by a token
Prefixes == {"", "Bearer ", "bearer ", "Basic "}
Headers ==
    {NoHeader} \cup [present : {TRUE}, prefix : Prefixes, token : Presentable]

\* The requests the actions take: every request that can succeed and one of
\* each kind that cannot.  The handlers themselves are checked on all of
\* Headers and Presentable.
BearerHeaders ==
    {NoHeader} \cup [present : {TRUE}, prefix : {"Bearer "}, token : issued]
RefreshTokens == {t \in issued : t.ID # 0} \cup {Malformed}

\* strings.ToLower on the prefixes
ToLower(prefix) == IF prefix = "Bearer " THEN "bearer " ELSE prefix

\* The string handed to ValidateToken: the header without a case-insensitive
\* "Bearer " prefix; with any other prefix the whole header, which is no JWT
BearerToken(header) ==
    IF ToLower(header.prefix) = "bearer " \/ header.prefix = ""
    THEN header.token
    ELSE Malformed

\* Mutant of Protected: only the exact prefix "Bearer " is stripped
ProtectedCaseSensitive(header, clock) ==
    IF ~header.present
    THEN [status |-> StatusUnauthorized, claims |-> Malformed]
    ELSE LET tokenString == IF header.prefix \in {"Bearer ", ""}
                            THEN header.token ELSE Malformed
             v == ValidateToken(tokenString, clock)
         IN  IF v.err # ""
             THEN [status |-> StatusUnauthorized, claims |-> Malformed]
             ELSE [status |-> StatusOK, claims |-> v.claims]

\* middleware.Protected: 401 on a missing header or a token that does not
\* validate; otherwise the claims go to the handler
Protected(header, clock) ==
    IF ~header.present
    THEN [status |-> StatusUnauthorized, claims |-> Malformed]
    ELSE LET v == ValidateToken(BearerToken(header), clock)
         IN  IF v.err # ""
             THEN [status |-> StatusUnauthorized, claims |-> Malformed]
             ELSE [status |-> StatusOK, claims |-> v.claims]

\* Mutant of RequireAccess: "superadmin" also satisfies "admin"
RequireAccessHierarchy(claims, requiredAccess) ==
    \E i \in 1..Len(claims.Accesses) :
        \/ claims.Accesses[i] = requiredAccess
        \/ claims.Accesses[i] = AccessSuperAdmin /\ requiredAccess = AccessAdmin

\* middleware.RequireAccess: literal membership of the label in the claims
RequireAccess(claims, requiredAccess) ==
    \E i \in 1..Len(claims.Accesses) : claims.Accesses[i] = requiredAccess

\* --------------------------------------------------------------- Handlers
\* A handler is a function of the database (users, blocked), the request and
\* the clock; it yields the HTTP status, the error text ("" for none), the
\* tokens in the response body and the database it leaves behind.
Result(status, err, out, us, bl) ==
    [status |-> status, err |-> err, out |-> out, users |-> us, blocked |-> bl]

\* AuthHandler.Register: POST /auth/register
RegisterHandler(us, bl, email, password, id, clock, jti) ==
    LET r == ServiceRegister(us, email, password, id)
        pair == GenerateTokenPair(r.user.ID, r.user.Email, <<AccessUser>>, clock, jti)
    IN  IF r.err # ""
        THEN Result(StatusBadRequest, r.err, <<>>, us, bl)
        ELSE Result(StatusOK, "", pair,
                    UpdateRefreshToken(r.users, r.user.ID, pair[2]), bl)

\* AuthHandler.Register from the INSERT of AuthService.Register on: the
\* lookup of the existing user has already answered "no such user"
RegisterInsert(us, bl, email, password, id, clock, jti) ==
    LET user == [ID |-> id, Email |-> email, Provider |-> "local",
                 Password |-> GenerateFromPassword(password),
                 RefreshToken |-> NoToken,
                 Accesses |-> Value(<<AccessUser>>), IsActive |-> TRUE]
        created == CreateUser(us, user)
        pair == GenerateTokenPair(id, email, <<AccessUser>>, clock, jti)
    IN  IF created.err # ""
        THEN Result(StatusBadRequest, created.err, <<>>, us, bl)
        ELSE Result(StatusOK, "", pair,
                    UpdateRefreshToken(created.users, id, pair[2]), bl)

\* Mutant of LoginHandler: the active flag is not checked
LoginHandlerNoActiveCheck(us, bl, email, password, clock, jti) ==
    LET r == ServiceLogin(us, email, password, clock, jti)
    IN  IF r.err # ""
        THEN Result(StatusUnauthorized, r.err, <<>>, us, bl)
        ELSE Result(StatusOK, "", r.tokens, r.users, bl)

\* AuthHandler.Login: POST /auth/login
LoginHandler(us, bl, email, password, clock, jti) ==
    LET r == ServiceLogin(us, email, password, clock, jti)
    IN  IF r.err # ""
        THEN Result(StatusUnauthorized, r.err, <<>>, us, bl)
        ELSE IF ~r.user.IsActive
        THEN Result(StatusForbidden, "Account is deactivated", <<>>, r.users, bl)
        ELSE Result(StatusOK, "", r.tokens, r.users, bl)

\* Mutant of RefreshTokenHandler: only the token in the user's slot refreshes
RefreshTokenHandlerChecksSlot(us, bl, t, clock, jti) ==
    LET v == ValidateRefreshToken(bl, t, clock)
        pair == GenerateTokenPair(v.claims.UserID, v.claims.Email,
                                  v.claims.Accesses, clock, jti)
        found == GetUserByID(us, v.claims.UserID)
    IN  IF v.err # "" \/ found = <<>> \/ found[1].RefreshToken # <<t>>
        THEN Result(StatusUnauthorized, "Invalid or expired refresh token",
                    <<>>, us, bl)
        ELSE Result(StatusOK, "", pair,
                    UpdateRefreshToken(us, v.claims.UserID, pair[2]), bl)

\* Mutant of RefreshTokenHandler: the presented token is revoked (rotation)
RefreshTokenHandlerRotates(us, bl, t, clock, jti) ==
    LET v == ValidateRefreshToken(bl, t, clock)
        pair == GenerateTokenPair(v.claims.UserID, v.claims.Email,
                                  v.claims.Accesses, clock, jti)
        b == BlockRefreshToken(bl, v.claims.UserID, t, clock)
    IN  IF v.err # ""
        THEN Result(StatusUnauthorized, v.err, <<>>, us, bl)
        ELSE Result(StatusOK, "", pair,
                    UpdateRefreshToken(us, v.claims.UserID, pair[2]),
                    b.blocked)

\* AuthHandler.RefreshToken: POST /auth/refresh
RefreshTokenHandler(us, bl, t, clock, jti) ==
    LET v == ValidateRefreshToken(bl, t, clock)
        pair == GenerateTokenPair(v.claims.UserID, v.claims.Email,
                                  v.claims.Accesses, clock, jti)
    IN  IF v.err # ""
        THEN Result(StatusUnauthorized, v.err, <<>>, us, bl)
        ELSE Result(StatusOK, "", pair,
                    UpdateRefreshToken(us, v.claims.UserID, pair[2]), bl)

\* AuthHandler.Logout behind middleware.Protected: POST /auth/logout
LogoutHandler(us, bl, header, t, clock) ==
    LET g == Protected(header, clock)
        b == BlockRefreshToken(bl, g.claims.UserID, t, clock)
    IN  IF g.status # StatusOK
        THEN Result(g.status, "Invalid token", <<>>, us, bl)
        ELSE IF b.err # ""
        THEN Result(StatusInternalServerError, b.err, <<>>, us, bl)
        ELSE Result(StatusOK, "", <<>>, us, b.blocked)

\* UsersHandler.UpdateUserStatus behind Protected and
\* RequireAccess("superadmin"): PUT /admin/users/:id/status
UpdateUserStatusHandler(us, bl, header, id, active, clock) ==
    LET g == Protected(header, clock)
        found == GetUserByID(us, id)
    IN  IF g.status # StatusOK
        THEN Result(g.status, "Invalid token", <<>>, us, bl)
        ELSE IF ~RequireAccess(g.claims, AccessSuperAdmin)
        THEN Result(StatusForbidden, "Insufficient access rights", <<>>, us, bl)
        ELSE IF found = <<>>
        THEN Result(StatusNotFound, "User not found", <<>>, us, bl)
        ELSE Result(StatusOK, "", <<>>,
                    UpdateUser(us, [found[1] EXCEPT !.IsActive = active]), bl)

\* handlers.CallbackHandler once the provider has verified the account:
\* GET /auth/:provider/callback
CallbackHandler(us, bl, email, clock) ==
    LET dbUser == [ID |-> GothUserID(email), Email |-> email,
                   Provider |-> OAuthProvider, Password |-> NoPassword,
                   RefreshToken |-> NoToken,
                   Accesses |-> Value(<<AccessUser>>), IsActive |-> FALSE]
        r == CreateOrUpdateUser(us, dbUser)
        token == GenerateToken(dbUser.ID, email, OAuthProvider, <<AccessUser>>, clock)
    IN  IF r.err # ""
        THEN Result(StatusInternalServerError, r.err, <<>>, us, bl)
        ELSE Result(StatusOK, "", <<token>>, r.users, bl)

\* handlers.CallbackHandler from the write of FirstOrCreate on
CallbackWrite(us, bl, email, found, clock) ==
    LET dbUser == [ID |-> GothUserID(email), Email |-> email,
                   Provider |-> OAuthProvider, Password |-> NoPassword,
                   RefreshToken |-> NoToken,
                   Accesses |-> Value(<<AccessUser>>), IsActive |-> FALSE]
        r == FirstOrCreateWrite(us, dbUser, found)
        token == GenerateToken(dbUser.ID, email, OAuthProvider, <<AccessUser>>, clock)
    IN  IF r.err # ""
        THEN Result(StatusInternalServerError, r.err, <<>>, us, bl)
        ELSE Result(StatusOK, "", <<token>>, r.users, bl)

\* -------------------------------------------------------------------- CLI
\* cli -create: handleCreateUser; status is the exit code
handleCreateUser(us, bl, email, password, id) ==
    LET user == [ID |-> id, Email |-> email, Provider |-> "local",
                 Password |-> GenerateFromPassword(password),
                 RefreshToken |-> NoToken,
                 Accesses |-> Value(<<AccessUser>>), IsActive |-> TRUE]
        r == CreateUser(us, user)
    IN  IF r.err # ""
        THEN Result(1, r.err, <<>>, us, bl)
        ELSE Result(0, "", <<>>, r.users, bl)

\* cli -delete: handleDeleteUser
handleDeleteUser(us, bl, email) ==
    LET found == GetUserByEmail(us, email)
        r == DeleteUser(us, bl, found[1].ID)
    IN  IF found = <<>>
        THEN Result(1, "user not found", <<>>, us, bl)
        ELSE Result(0, "", <<>>, r.users, r.blocked)

HasLabel(accesses, label) == \E i \in 1..Len(accesses) : accesses[i] = label

\* cli -make-admin: handleMakeAdmin
handleMakeAdmin(us, bl, email) ==
    LET found == GetUserByEmail(us, email)
        old == Scan(found[1].Accesses)
        withAdmin == IF HasLabel(old, AccessAdmin) THEN old
                     ELSE Append(old, AccessAdmin)
        new == IF HasLabel(old, AccessSuperAdmin) THEN withAdmin
               ELSE Append(withAdmin, AccessSuperAdmin)
    IN  IF found = <<>>
        THEN Result(1, "user not found", <<>>, us, bl)
        ELSE Result(0, "", <<>>,
                    UpdateUser(us, [found[1] EXCEPT !.Accesses = Value(new)]), bl)

\* cli -remove-admin: handleRemoveAdmin
handleRemoveAdmin(us, bl, email) ==
    LET found == GetUserByEmail(us, email)
        old == Scan(found[1].Accesses)
        new == SelectSeq(old, LAMBDA a : a # AccessAdmin /\ a # AccessSuperAdmin)
    IN  IF found = <<>>
        THEN Result(1, "user not found", <<>>, us, bl)
        ELSE Result(0, "", <<>>,
                    UpdateUser(us, [found[1] EXCEPT !.Accesses = Value(new)]), bl)

\* ---------------------------------------------------------------- Actions
\* No sweep in flight, no ledger query made yet
NotPurging == -1
NoQuery == [token |-> Malformed, at |-> 0, result |-> "none"]

\* The requests that can be in flight at once, and a slot serving none
Slots == 1..MaxInFlight
Idle ==
    [op |-> "idle", email |-> "", password |-> "", found |-> <<>>,
     userID |-> 0, pair |-> <<>>]

Respond(op, r) ==
    last' = IF r.users = users /\ r.blocked = blocked /\ r.out = <<>>
            THEN last
            ELSE [op |-> op, status |-> r.status]

Init ==
    /\ now = 0
    /\ users = <<>>
    /\ blocked = {}
    /\ nextUserID = 0
    /\ minted = 0
    /\ issued = {}
    /\ loggedOut = {}
    /\ last = [op |-> "init", status |-> 0]
    /\ purgeAt = NotPurging
    /\ query = NoQuery
    /\ inflight = [s \in Slots |-> Idle]

\* A request that mints tokens draws uuid.New() and hands its tokens out
Mints(r) ==
    /\ minted < MaxMints
    /\ minted' = minted + 1
    /\ issued' = issued \cup {r.out[i] : i \in 1..Len(r.out)}

Register(email, password) ==
    LET r == RegisterHandler(users, blocked, email, password, nextUserID + 1,
                             now, minted + 1)
    IN  /\ Respond("register", r)
        /\ users' = r.users
        /\ blocked' = r.blocked
        /\ IF r.status = StatusOK
           THEN /\ nextUserID < MaxUsers
                /\ nextUserID' = nextUserID + 1
                /\ Mints(r)
           ELSE UNCHANGED <<nextUserID, minted, issued>>
        /\ UNCHANGED <<now, loggedOut, purgeAt, query, inflight>>

Login(email, password) ==
    LET r == LoginHandler(users, blocked, email, password, now, minted + 1)
    IN  /\ Respond("login", r)
        /\ users' = r.users
        /\ blocked' = r.blocked
        /\ IF r.status # StatusUnauthorized
           THEN Mints(r)
           ELSE UNCHANGED <<minted, issued>>
        /\ UNCHANGED <<now, nextUserID, loggedOut, purgeAt, query, inflight>>

RefreshToken(t) ==
    LET r == RefreshTokenHandler(users, blocked, t, now, minted + 1)
    IN  /\ Respond("refresh", r)
        /\ users' = r.users
        /\ blocked' = r.blocked
        /\ IF r.status = StatusOK
           THEN Mints(r)
           ELSE UNCHANGED <<minted, issued>>
        /\ UNCHANGED <<now, nextUserID, loggedOut, purgeAt, query, inflight>>

Logout(header, t) ==
    LET r == LogoutHandler(users, blocked, header, t, now)
    IN  /\ Respond("logout", r)
        /\ users' = r.users
        /\ blocked' = r.blocked
        /\ loggedOut' = IF r.status = StatusOK THEN loggedOut \cup {t} ELSE loggedOut
        /\ UNCHANGED <<now, nextUserID, minted, issued, purgeAt, query, inflight>>

UpdateUserStatus(header, id, active) ==
    LET r == UpdateUserStatusHandler(users, blocked, header, id, active, now)
    IN  /\ Respond("status", r)
        /\ users' = r.users
        /\ blocked' = r.blocked
        /\ UNCHANGED <<now, nextUserID, minted, issued, loggedOut,
                       purgeAt, query, inflight>>

\* AuthService.UpdateUserAccesses called for a stored user
UpdateAccesses(id, accesses) ==
    LET u == UpdateUserAccesses(users, id, accesses)
        r == Result(IF u.err = "" THEN StatusOK ELSE StatusInternalServerError,
                    u.err, <<>>, u.users, blocked)
    IN  /\ Respond("accesses", r)
        /\ users' = r.users
        /\ UNCHANGED <<now, blocked, nextUserID, minted, issued, loggedOut,
                       purgeAt, query, inflight>>

Callback(email) ==
    LET r == CallbackHandler(users, blocked, email, now)
    IN  /\ Respond("oauth", r)
        /\ users' = r.users
        /\ blocked' = r.blocked
        /\ IF r.status = StatusOK
           THEN Mints(r)
           ELSE UNCHANGED <<minted, issued>>
        /\ UNCHANGED <<now, nextUserID, loggedOut, purgeAt, query, inflight>>

CliCreateUser(email, password) ==
    LET r == handleCreateUser(users, blocked, email, password, nextUserID + 1)
    IN  /\ nextUserID < MaxUsers
        /\ nextUserID' = nextUserID + 1
        /\ Respond("cli-create", r)
        /\ users' = r.users
        /\ blocked' = r.blocked
        /\ UNCHANGED <<now, minted, issued, loggedOut, purgeAt, query, inflight>>

CliDeleteUser(email) ==
    LET r == handleDeleteUser(users, blocked, email)
    IN  /\ Respond("cli-delete", r)
        /\ users' = r.users
        /\ blocked' = r.blocked
        /\ UNCHANGED <<now, nextUserID, minted, issued, loggedOut,
                       purgeAt, query, inflight>>

CliMakeAdmin(email) ==
    LET r == handleMakeAdmin(users, blocked, email)
    IN  /\ Respond("cli-make-admin", r)
        /\ users' = r.users
        /\ blocked' = r.blocked
        /\ UNCHANGED <<now, nextUserID, minted, issued, loggedOut,
                       purgeAt, query, inflight>>

CliRemoveAdmin(email) ==
    LET r == handleRemoveAdmin(users, blocked, email)
    IN  /\ Respond("cli-remove-admin", r)
        /\ users' = r.users
        /\ blocked' = r.blocked
        /\ UNCHANGED <<now, nextUserID, minted, issued, loggedOut,
                       purgeAt, query, inflight>>

\* UserRepository.CleanupBlockedTokens run as the maintenance sweep
Purge ==
    /\ blocked' = CleanupBlockedTokens(blocked, now)
    /\ UNCHANGED <<now, users, nextUserID, minted, issued, loggedOut, last,
                   purgeAt, query, inflight>>

\* UserRepository.CleanupBlockedTokens and IsRefreshTokenBlocked step by
\* step: each takes time.Now() as the argument of its statement, and the
\* statement runs on the database later, with other calls in between
PurgeBegin ==
    /\ purgeAt = NotPurging
    /\ purgeAt' = now
    /\ UNCHANGED <<now, users, blocked, nextUserID, minted, issued, loggedOut,
                   last, query, inflight>>

PurgeEnd ==
    /\ purgeAt # NotPurging
    /\ blocked' = CleanupBlockedTokens(blocked, purgeAt)
    /\ purgeAt' = NotPurging
    /\ last' = IF blocked' = blocked THEN last
               ELSE [op |-> "purge", status |-> StatusOK]
    /\ UNCHANGED <<now, users, nextUserID, minted, issued, loggedOut, query, inflight>>

IsBlockedBegin(t) ==
    /\ query.result # "pending"
    /\ query' = [token |-> t, at |-> now, result |-> "pending"]
    /\ UNCHANGED <<now, users, blocked, nextUserID, minted, issued, loggedOut,
                   last, purgeAt, inflight>>

IsBlockedEnd ==
    /\ query.result = "pending"
    /\ query' = [query EXCEPT !.result =
                     IF IsRefreshTokenBlocked(blocked, query.token, query.at)
                     THEN "revoked" ELSE "clear"]
    /\ UNCHANGED <<now, users, blocked, nextUserID, minted, issued, loggedOut,
                   last, purgeAt, inflight>>

\* The clock advances to the next instant at which requests are observed
Tick ==
    /\ \E c \in ClockValues : c > now
    /\ now' = CHOOSE c \in ClockValues :
                  c > now /\ \A d \in ClockValues : d > now => c <= d
    /\ UNCHANGED <<users, blocked, nextUserID, minted, issued, loggedOut, last,
                   purgeAt, query, inflight>>

\* ----------------------------------------------- requests served in steps
\* A request takes a slot once.  AuthService.Register, first statement: the
\* lookup by email; "user already exists" is answered at once
RegisterBegin(s, email, password) ==
    /\ inflight[s] = Idle
    /\ inflight' =
           [inflight EXCEPT ![s] =
               IF GetUserByEmail(users, email) # <<>>
               THEN [Idle EXCEPT !.op = "answered"]
               ELSE [Idle EXCEPT !.op = "register", !.email = email,
                                 !.password = password]]
    /\ UNCHANGED <<now, users, blocked, nextUserID, minted, issued, loggedOut,
                   last, purgeAt, query>>

\* The rest of the register request: INSERT, mint, save the slot, answer
RegisterEnd(s) ==
    LET q == inflight[s]
        r == RegisterInsert(users, blocked, q.email, q.password,
                            nextUserID + 1, now, minted + 1)
    IN  /\ q.op = "register"
        /\ Respond("register", r)
        /\ users' = r.users
        /\ blocked' = r.blocked
        /\ nextUserID' = nextUserID + 1
        /\ IF r.status = StatusOK
           THEN /\ minted' = minted + 1
                /\ issued' = issued \cup {r.out[i] : i \in 1..Len(r.out)}
           ELSE UNCHANGED <<minted, issued>>
        /\ inflight' = [inflight EXCEPT ![s] = [Idle EXCEPT !.op = "answered"]]
        /\ UNCHANGED <<now, loggedOut, purgeAt, query>>

\* CreateOrUpdateUser, the SELECT of FirstOrCreate
CallbackBegin(s, email) ==
    /\ inflight[s] = Idle
    /\ inflight' =
           [inflight EXCEPT ![s] =
               [Idle EXCEPT !.op = "oauth", !.email = email,
                            !.found = GetUserByEmailAndProvider(
                                          users, email, OAuthProvider)]]
    /\ UNCHANGED <<now, users, blocked, nextUserID, minted, issued, loggedOut,
                   last, purgeAt, query>>

\* The rest of the callback: the write of FirstOrCreate, the token, the answer
CallbackEnd(s) ==
    LET q == inflight[s]
        r == CallbackWrite(users, blocked, q.email, q.found, now)
    IN  /\ q.op = "oauth"
        /\ Respond("oauth", r)
        /\ users' = r.users
        /\ blocked' = r.blocked
        /\ IF r.status = StatusOK
           THEN /\ minted' = minted + 1
                /\ issued' = issued \cup {r.out[i] : i \in 1..Len(r.out)}
           ELSE UNCHANGED <<minted, issued>>
        /\ inflight' = [inflight EXCEPT ![s] = [Idle EXCEPT !.op = "answered"]]
        /\ UNCHANGED <<now, nextUserID, loggedOut, purgeAt, query>>

\* AuthHandler.RefreshToken up to the new pair: validate the presented token
\* and mint; a rejected token is answered 401 at once
RefreshBegin(s, t) ==
    LET v == ValidateRefreshToken(blocked, t, now)
        pair == GenerateTokenPair(v.claims.UserID, v.claims.Email,
                                  v.claims.Accesses, now, minted + 1)
    IN  /\ inflight[s] = Idle
        /\ IF v.err # ""
           THEN /\ inflight' = [inflight EXCEPT
                                   ![s] = [Idle EXCEPT !.op = "answered"]]
                /\ UNCHANGED minted
           ELSE /\ inflight' = [inflight EXCEPT
                                   ![s] = [Idle EXCEPT !.op = "refresh",
                                                       !.userID = v.claims.UserID,
                                                       !.pair = pair]]
                /\ minted' = minted + 1
        /\ UNCHANGED <<now, users, blocked, nextUserID, issued, loggedOut,
                       last, purgeAt, query>>

\* The rest of the refresh: UpdateRefreshToken, then the pair is answered
RefreshEnd(s) ==
    LET q == inflight[s]
    IN  /\ q.op = "refresh"
        /\ users' = UpdateRefreshToken(users, q.userID, q.pair[2])
        /\ issued' = issued \cup {q.pair[1], q.pair[2]}
        /\ last' = [op |-> "refresh", status |-> StatusOK]
        /\ inflight' = [inflight EXCEPT ![s].op = "refreshed"]
        /\ UNCHANGED <<now, blocked, nextUserID, minted, loggedOut, purgeAt,
                       query>>

Next ==
    \/ \E e \in Emails : Register(e, GoodPassword)
    \/ \E e \in Emails, p \in Passwords : Login(e, p)
    \/ \E t \in RefreshTokens : RefreshToken(t)
    \/ \E h \in BearerHeaders, t \in RefreshTokens : Logout(h, t)
    \/ \E h \in BearerHeaders, i \in DOMAIN users, a \in BOOLEAN :
           UpdateUserStatus(h, i, a)
    \/ \E e \in OAuthEmails : Callback(e)
    \/ \E e \in Emails : CliCreateUser(e, GoodPassword)
    \/ \E e \in Emails : CliDeleteUser(e)
    \/ \E e \in Emails : CliMakeAdmin(e)
    \/ \E e \in Emails : CliRemoveAdmin(e)
    \/ Purge
    \/ Tick

Spec == Init /\ [][Next]_vars

\* The service with its capability administration and the route guarded by
\* a capability: AuthService has UpdateUserAccesses, which no route and no
\* CLI command calls, so it acts here and not in Next
CapabilityNext ==
    \/ \E e \in Emails : Register(e, GoodPassword)
    \/ \E e \in Emails : CliCreateUser(e, GoodPassword)
    \/ \E e \in Emails, p \in Passwords : Login(e, p)
    \/ \E t \in RefreshTokens : RefreshToken(t)
    \/ \E i \in DOMAIN users, a \in CapabilityLists : UpdateAccesses(i, a)
    \/ \E h \in BearerHeaders, i \in DOMAIN users, a \in BOOLEAN :
           UpdateUserStatus(h, i, a)
    \/ Tick

CapabilitySpec == Init /\ [][CapabilityNext]_vars

\* The revocation ledger under concurrent calls: revocations (logout), the
\* sweep and ledger queries interleave statement by statement
LedgerNext ==
    \/ \E e \in Emails : Register(e, GoodPassword)
    \/ \E e \in Emails : Login(e, GoodPassword)
    \/ \E h \in BearerHeaders, t \in RefreshTokens : Logout(h, t)
    \/ PurgeBegin
    \/ PurgeEnd
    \/ \E t \in issued : IsBlockedBegin(t)
    \/ IsBlockedEnd
    \/ Tick

LedgerSpec == Init /\ [][LedgerNext]_vars

\* User creation under concurrent requests: register and the OAuth callback
\* served in steps, next to the CLI
CreationNext ==
    \/ \E s \in Slots, e \in Emails : RegisterBegin(s, e, GoodPassword)
    \/ \E s \in Slots : RegisterEnd(s)
    \/ \E s \in Slots, e \in Emails : CallbackBegin(s, e)
    \/ \E s \in Slots : CallbackEnd(s)
    \/ \E e \in Emails : CliCreateUser(e, GoodPassword)
    \/ \E e \in Emails : CliDeleteUser(e)

CreationSpec == Init /\ [][CreationNext]_vars

\* The refresh route under concurrent requests
RefreshNext ==
    \/ \E e \in Emails : Register(e, GoodPassword)
    \/ \E h \in BearerHeaders, t \in RefreshTokens : Logout(h, t)
    \/ \E s \in Slots, t \in RefreshTokens : RefreshBegin(s, t)
    \/ \E s \in Slots : RefreshEnd(s)
    \/ Tick

RefreshSpec == Init /\ [][RefreshNext]_vars

\* scheduler.Initialize: a gocron scheduler is started with no job
\* registered, so a run of the scheduler executes nothing;
\* CleanupBlockedTokens has no caller
SchedulerRun == UNCHANGED vars

\* The running server with its scheduler, and the CLI on the same database:
\* time passes and the scheduler keeps running
ServerNext ==
    \/ \E e \in Emails : Register(e, GoodPassword)
    \/ \E e \in Emails, p \in Passwords : Login(e, p)
    \/ \E t \in RefreshTokens : RefreshToken(t)
    \/ \E h \in BearerHeaders, t \in RefreshTokens : Logout(h, t)
    \/ \E h \in BearerHeaders, i \in DOMAIN users, a \in BOOLEAN :
           UpdateUserStatus(h, i, a)
    \/ \E e \in OAuthEmails : Callback(e)
    \/ \E e \in Emails : CliCreateUser(e, GoodPassword)
    \/ \E e \in Emails : CliDeleteUser(e)
    \/ \E e \in Emails : CliMakeAdmin(e)
    \/ \E e \in Emails : CliRemoveAdmin(e)
    \/ SchedulerRun
    \/ Tick

ServerSpec ==
    Init /\ [][ServerNext]_vars /\ WF_vars(Tick) /\ WF_vars(SchedulerRun)

\* ================================================================ Claims
\* A token verifies: it is a JWT, signed with the server secret, not expired
Verifies(t) == t.wf /\ t.key = JWTSecret /\ t.ExpiresAt > now

\* The request passes the authentication stage of the guard
Authenticated(h) == h.present /\ Verifies(BearerToken(h))

LocalIdentity(email) ==
    {i \in DOMAIN users : users[i].Email = email /\ users[i].Provider = "local"}

\* C1: once a logout has answered 200 for a refresh token, every later
\* refresh with that token fails
C1_RevokedNeverRefreshes ==
    \A t \in loggedOut :
        RefreshTokenHandler(users, blocked, t, now, minted + 1).status # StatusOK

\* C2: a logout whose refresh token does not verify fails with "invalid
\* refresh token" and leaves the ledger as it was; a logout whose refresh
\* token verifies leaves a ledger that holds a row with the token's literal
\* value and the token's own expiry, and any row it adds is that row
C2_LogoutRecordsVerifiedToken ==
    \A h \in Headers, t \in Presentable :
        LET r == LogoutHandler(users, blocked, h, t, now)
        IN  Authenticated(h) =>
              /\ ~Verifies(t) =>
                    /\ r.status # StatusOK
                    /\ r.err = "invalid refresh token"
                    /\ r.blocked = blocked
              /\ Verifies(t) =>
                    /\ \E b \in r.blocked :
                           b.Token = t /\ b.ExpiresAt = t.ExpiresAt
                    /\ blocked \subseteq r.blocked
                    /\ \A b \in r.blocked \ blocked :
                           b.Token = t /\ b.ExpiresAt = t.ExpiresAt
                    /\ r.status = StatusOK => r.blocked # blocked

\* C2 witness: a logout has recorded a token, and a token that no longer
\* verifies is at hand
C2_Witness ==
    /\ last = [op |-> "logout", status |-> StatusOK]
    /\ \E b \in blocked : Verifies(b.Token) /\ b.ExpiresAt = b.Token.ExpiresAt
    /\ \E h \in Headers, t \in issued :
           /\ Authenticated(h)
           /\ ~Verifies(t)
           /\ LogoutHandler(users, blocked, h, t, now).status
                  = StatusInternalServerError

\* C3: the ledger never holds two rows for one token, and after a revocation
\* of a verifying token - the first or a repeated one - it holds exactly one
\* row for it and isRevoked is true
C3_RevokeIdempotent ==
    /\ \A b1 \in blocked, b2 \in blocked : b1.Token = b2.Token => b1 = b2
    /\ \A h \in Headers, t \in Presentable :
           LET r == LogoutHandler(users, blocked, h, t, now)
           IN  (Authenticated(h) /\ Verifies(t)) =>
                  /\ Cardinality({b \in r.blocked : b.Token = t}) = 1
                  /\ IsRefreshTokenBlocked(r.blocked, t, now)

\* C3 witness: a token was revoked, is still unexpired, and a second
\* revocation of it is answered
C3_Witness ==
    \E t \in loggedOut, h \in Headers :
        /\ Authenticated(h)
        /\ Verifies(t)
        /\ \E b \in blocked : b.Token = t
        /\ LogoutHandler(users, blocked, h, t, now).err = "duplicate key"

\* C4: a logout with a verifying refresh token that is already in the ledger
\* succeeds like the first one and changes nothing
C4_DoubleLogoutSucceeds ==
    \A h \in Headers, t \in Presentable :
        LET r == LogoutHandler(users, blocked, h, t, now)
        IN  (Authenticated(h) /\ Verifies(t) /\ \E b \in blocked : b.Token = t) =>
               r.status = StatusOK /\ r.blocked = blocked

\* C5: register with an email that has a local identity fails with "user
\* already exists", creates no identity and changes no record
C5_RegisterAlreadyExists ==
    \A e \in Emails, p \in Passwords :
        LET r == RegisterHandler(users, blocked, e, p, nextUserID + 1, now, minted + 1)
        IN  LocalIdentity(e) # {} =>
               /\ r.status = StatusBadRequest
               /\ r.err = "user already exists"
               /\ r.out = <<>>
               /\ r.users = users
               /\ r.blocked = blocked

\* C5 witness: a registration has created a local identity, and a second
\* registration with its email is refused
C5_Witness ==
    /\ last = [op |-> "register", status |-> StatusOK]
    /\ \E e \in Emails :
           /\ LocalIdentity(e) # {}
           /\ RegisterHandler(users, blocked, e, GoodPassword, nextUserID + 1,
                              now, minted + 1).status = StatusBadRequest

\* C6: a successful register creates one identity, with provider "local",
\* capability set exactly {"user"} and active; a login with the same email
\* and password right after it succeeds with an access and a refresh token
\* that both decode to the capability set {"user"}
C6_RegisterThenLogin ==
    \A e \in Emails, p \in Passwords :
        LET r == RegisterHandler(users, blocked, e, p, nextUserID + 1, now, minted + 1)
            l == LoginHandler(r.users, r.blocked, e, p, now, minted + 2)
            new == DOMAIN r.users \ DOMAIN users
        IN  r.status = StatusOK =>
               /\ Cardinality(new) = 1
               /\ \A i \in new :
                     /\ r.users[i].Email = e
                     /\ r.users[i].Provider = "local"
                     /\ Scan(r.users[i].Accesses) = <<AccessUser>>
                     /\ r.users[i].IsActive
               /\ l.status = StatusOK
               /\ Len(l.out) = 2
               /\ \A k \in 1..2 :
                     LET v == ValidateToken(l.out[k], now)
                     IN  v.err = "" /\ v.claims.Accesses = <<AccessUser>>

\* C6 witness: a registration has just created an identity
C6_Witness ==
    /\ last = [op |-> "register", status |-> StatusOK]
    /\ \E i \in DOMAIN users :
           /\ users[i].Provider = "local"
           /\ users[i].RefreshToken # NoToken
           /\ users[i].RefreshToken[1].IssuedAt = now
           /\ LoginHandler(users, blocked, users[i].Email, GoodPassword, now,
                           minted + 1).status = StatusOK

\* C7: login fails with "user not found" exactly when the email has no local
\* identity (also when it has only an OAuth identity), fails with "invalid
\* password" when a local identity exists and the password does not match,
\* and mints nothing either way
C7_LoginNotFoundIffNoLocal ==
    \A e \in Emails, p \in Passwords :
        LET r == LoginHandler(users, blocked, e, p, now, minted + 1)
        IN  /\ (r.err = "user not found") <=> (LocalIdentity(e) = {})
            /\ (\E i \in LocalIdentity(e) :
                    ~CompareHashAndPassword(users[i].Password, p))
                  => r.err = "invalid password"
            /\ r.err \in {"user not found", "invalid password"} =>
                  r.out = <<>> /\ r.users = users

\* C8: a login with the right password for a deactivated identity is
\* answered 403 "Account is deactivated" and carries no tokens
C8_DeactivatedLoginForbidden ==
    \A e \in Emails, p \in Passwords :
        LET r == LoginHandler(users, blocked, e, p, now, minted + 1)
        IN  (\E i \in DOMAIN users :
                 /\ users[i].Email = e
                 /\ users[i].Password = GenerateFromPassword(p)
                 /\ ~users[i].IsActive)
            => /\ r.status = StatusForbidden
               /\ r.err = "Account is deactivated"
               /\ r.out = <<>>

\* C8 witness: a deactivated identity has logged in with its password and
\* was answered 403
C8_Witness ==
    /\ last = [op |-> "login", status |-> StatusForbidden]
    /\ \E i \in DOMAIN users :
           ~users[i].IsActive /\ users[i].Password = GenerateFromPassword(GoodPassword)

\* C9: a successful login returns two tokens that carry the capability set
\* stored for the identity at that moment, and leaves the returned refresh
\* token in the identity's refresh-token slot
C9_LoginSnapshotsAndPersists ==
    \A e \in Emails, p \in Passwords :
        LET r == LoginHandler(users, blocked, e, p, now, minted + 1)
        IN  r.status = StatusOK =>
               \E i \in DOMAIN users :
                   /\ users[i].Email = e
                   /\ Len(r.out) = 2
                   /\ r.out[1].Accesses = Scan(users[i].Accesses)
                   /\ r.out[2].Accesses = Scan(users[i].Accesses)
                   /\ r.out[1].UserID = i /\ r.out[2].UserID = i
                   /\ i \in DOMAIN r.users
                   /\ r.users[i].RefreshToken = <<r.out[2]>>

\* C9 witness: an identity that holds "superadmin" has logged in, and its
\* slot holds the refresh token of that login, carrying "superadmin"
C9_Witness ==
    /\ last = [op |-> "login", status |-> StatusOK]
    /\ \E i \in DOMAIN users :
           /\ HasLabel(Scan(users[i].Accesses), AccessSuperAdmin)
           /\ users[i].RefreshToken # NoToken
           /\ users[i].RefreshToken[1] \in issued
           /\ users[i].RefreshToken[1].IssuedAt = now
           /\ HasLabel(users[i].RefreshToken[1].Accesses, AccessSuperAdmin)

\* C10: a refresh with a token that does not verify is answered 401 with the
\* codec's error, returns no tokens and leaves users and ledger as they were
C10_RefreshRejectsUnverified ==
    \A t \in Presentable :
        LET r == RefreshTokenHandler(users, blocked, t, now, minted + 1)
        IN  ~Verifies(t) =>
               /\ r.status = StatusUnauthorized
               /\ r.err \in CodecErrors
               /\ r.out = <<>>
               /\ r.users = users
               /\ r.blocked = blocked

\* C10 witness: a refresh token that was handed out has expired, one with a
\* bad signature is at hand, and refresh refuses both
C10_Witness ==
    /\ \E t \in issued :
           /\ t.ID # 0
           /\ t.ExpiresAt <= now
           /\ RefreshTokenHandler(users, blocked, t, now, minted + 1).status
                  = StatusUnauthorized
    /\ \E t \in Presentable :
           /\ t.wf /\ t.key # JWTSecret /\ t.ExpiresAt > now
           /\ RefreshTokenHandler(users, blocked, t, now, minted + 1).status
                  = StatusUnauthorized

\* C11: a refresh that answers 200 returns two tokens whose subject id,
\* email, provider and capability set are those of the presented token, and
\* leaves the new refresh token in the slot of the token's user
C11_RefreshCopiesClaims ==
    \A t \in Presentable :
        LET r == RefreshTokenHandler(users, blocked, t, now, minted + 1)
        IN  r.status = StatusOK =>
               /\ Len(r.out) = 2
               /\ \A k \in 1..2 :
                      /\ r.out[k].UserID = t.UserID
                      /\ r.out[k].Email = t.Email
                      /\ r.out[k].Provider = t.Provider
                      /\ r.out[k].Accesses = t.Accesses
               /\ \A i \in DOMAIN r.users :
                      r.users[i].ID = t.UserID =>
                          r.users[i].RefreshToken = <<r.out[2]>>

\* C12: after UpdateUserAccesses(u, c) the next successful login of u puts c
\* into both tokens, while every token issued before still verifies to the
\* capability set it was issued with, and a refresh with such a token on the
\* updated store still mints that old set
C12_UpdateIsolatesIssuedTokens ==
    \A i \in DOMAIN users, c \in CapabilityLists :
        LET u == UpdateUserAccesses(users, i, c)
            l == LoginHandler(u.users, blocked, users[i].Email, GoodPassword,
                              now, minted + 1)
        IN  /\ u.err = ""
            /\ (users[i].Provider = "local" /\ users[i].IsActive) =>
                   /\ l.status = StatusOK
                   /\ \A k \in 1..2 : ValidateToken(l.out[k], now).claims.Accesses = c
            /\ \A t \in issued :
                   Verifies(t) =>
                      /\ ValidateToken(t, now).claims.Accesses = t.Accesses
                      /\ Protected([present |-> TRUE, prefix |-> "Bearer ",
                                    token |-> t], now).claims.Accesses = t.Accesses
                      /\ LET r == RefreshTokenHandler(u.users, blocked, t, now,
                                                      minted + 1)
                         IN  r.status = StatusOK =>
                                \A k \in 1..2 : r.out[k].Accesses = t.Accesses

\* C12 witness: the capability set of a user was changed after a token was
\* issued, a later login carries the new set, and the old token still
\* verifies
C12_Witness ==
    /\ last = [op |-> "login", status |-> StatusOK]
    /\ \E t1 \in issued, t2 \in issued :
           /\ Verifies(t1) /\ Verifies(t2)
           /\ t1.UserID = t2.UserID
           /\ t1.UserID \in DOMAIN users
           /\ t1.Accesses # t2.Accesses
           /\ t1.IssuedAt <= t2.IssuedAt
           /\ t2.Accesses = Scan(users[t2.UserID].Accesses)
           /\ users[t2.UserID].RefreshToken = <<t2>>

\* The header without an optional "Bearer " prefix in any letter case; a
\* header with another prefix is taken whole and is no token
Remainder(h) == IF h.prefix \in {"", "Bearer ", "bearer "} THEN h.token ELSE Malformed

\* C13: the guard passes a request on exactly when its Authorization header
\* is present and the remainder after an optional case-insensitive "Bearer "
\* verifies; then the claims handed on are the token's claims; otherwise the
\* answer is 401 and the guarded handlers change nothing
C13_GuardAuthenticates ==
    \A h \in Headers :
        LET g == Protected(h, now)
            pass == h.present /\ Verifies(Remainder(h))
        IN  /\ g.status = StatusOK <=> pass
            /\ pass => g.claims = Remainder(h)
            /\ ~pass =>
                   /\ g.status = StatusUnauthorized
                   /\ \A t \in Presentable :
                          LET r == LogoutHandler(users, blocked, h, t, now)
                          IN  /\ r.status = StatusUnauthorized
                              /\ r.users = users /\ r.blocked = blocked
                   /\ \A i \in DOMAIN users, a \in BOOLEAN :
                          LET r == UpdateUserStatusHandler(users, blocked, h, i,
                                                          a, now)
                          IN  /\ r.status = StatusUnauthorized
                              /\ r.users = users /\ r.blocked = blocked

\* C13 witness: a guarded request has been served, a lower-case "bearer "
\* header with a live token passes, and a header with an expired token and
\* one with a forged token are refused
C13_Witness ==
    /\ last.op \in {"logout", "status"} /\ last.status = StatusOK
    /\ \E h \in Headers :
           h.present /\ h.prefix = "bearer " /\ Protected(h, now).status = StatusOK
    /\ \E h \in Headers :
           /\ h.present /\ h.prefix = "Bearer " /\ h.token \in issued
           /\ h.token.ExpiresAt <= now
           /\ Protected(h, now).status = StatusUnauthorized
    /\ \E h \in Headers :
           /\ h.present /\ h.token.wf /\ h.token.key # JWTSecret
           /\ Protected(h, now).status = StatusUnauthorized
    /\ users # <<>>

\* The capability set in a token's claims
Held(claims) == {claims.Accesses[k] : k \in 1..Len(claims.Accesses)}

\* C14: an authenticated request passes a requirement of label L exactly when
\* L is a member of the capability set in its claims, no label standing in
\* for another; the superadmin route answers 403 and changes nothing exactly
\* when "superadmin" is not in the claims
C14_GuardAuthorizes ==
    /\ \A c \in CapabilityLists, L \in Labels :
           RequireAccess([Accesses |-> c], L) <=> \E k \in 1..Len(c) : c[k] = L
    /\ ~RequireAccess([Accesses |-> <<AccessSuperAdmin>>], AccessAdmin)
    /\ ~RequireAccess([Accesses |-> <<AccessAdmin>>], AccessSuperAdmin)
    /\ \A h \in Headers :
           Authenticated(h) =>
              LET claims == Protected(h, now).claims
              IN  /\ \A L \in Labels :
                         RequireAccess(claims, L) <=> L \in Held(claims)
                  /\ \A i \in DOMAIN users, a \in BOOLEAN :
                         LET r == UpdateUserStatusHandler(users, blocked, h, i,
                                                         a, now)
                         IN  /\ r.status = StatusForbidden
                                    <=> AccessSuperAdmin \notin Held(claims)
                             /\ r.status = StatusForbidden =>
                                    r.users = users /\ r.blocked = blocked

\* C14 witness: the superadmin route has served a request, a live token that
\* holds "admin" without "superadmin" is refused there with 403, and a live
\* token that holds "superadmin" without "admin" passes there but would not
\* pass a requirement of "admin"
C14_Witness ==
    /\ last = [op |-> "status", status |-> StatusOK]
    /\ \E t1 \in issued, t2 \in issued, i \in DOMAIN users :
           LET h1 == [present |-> TRUE, prefix |-> "Bearer ", token |-> t1]
               h2 == [present |-> TRUE, prefix |-> "Bearer ", token |-> t2]
           IN  /\ Verifies(t1) /\ Verifies(t2)
               /\ AccessAdmin \in Held(t1) /\ AccessSuperAdmin \notin Held(t1)
               /\ AccessSuperAdmin \in Held(t2) /\ AccessAdmin \notin Held(t2)
               /\ UpdateUserStatusHandler(users, blocked, h1, i, FALSE, now).status
                      = StatusForbidden
               /\ UpdateUserStatusHandler(users, blocked, h2, i, FALSE, now).status
                      = StatusOK
               /\ ~RequireAccess(t2, AccessAdmin)

\* The identities tokens are issued for
SubjectIDs == {1, 2} \cup {GothUserID(e) : e \in OAuthEmails}
Providers == {"local", OAuthProvider}

\* C15: for every subject id, email, provider and capability set, the access
\* token issued from them, and both tokens of the pair issued for them,
\* verify at once and decode to the same subject id, email, provider and
\* capability set
C15_RoundTrip ==
    \A id \in SubjectIDs, e \in Emails, p \in Providers, c \in CapabilityLists :
        LET a == ValidateToken(GenerateToken(id, e, p, c, now), now)
            pair == GenerateTokenPair(id, e, c, now, minted + 1)
        IN  /\ a.err = ""
            /\ a.claims.UserID = id /\ a.claims.Email = e
            /\ a.claims.Provider = p /\ a.claims.Accesses = c
            /\ \A k \in 1..2 :
                   LET v == ValidateToken(pair[k], now)
                   IN  /\ v.err = ""
                       /\ v.claims.UserID = id /\ v.claims.Email = e
                       /\ v.claims.Provider = p /\ v.claims.Accesses = c

\* C16: a correctly signed token verifies when its expires-at is one unit of
\* the clock or more after the current time and fails as expired when it is
\* one unit or more before; an access token expires TokenDuration hours and
\* a refresh token 7 days after it was issued
C16_ExpiryBoundary ==
    /\ \A t \in issued :
           /\ t.ExpiresAt >= now + 1 => ValidateToken(t, now).err = ""
           /\ t.ExpiresAt <= now - 1 => ValidateToken(t, now).err = ErrTokenExpired
           /\ t.ExpiresAt - t.IssuedAt = IF t.ID = 0 THEN AccessTTL ELSE RefreshTTL
    /\ \A id \in SubjectIDs, e \in Emails, c \in CapabilityLists :
           LET pair == GenerateTokenPair(id, e, c, now, minted + 1)
               late == [pair[2] EXCEPT !.ExpiresAt = now + 1]
               early == [pair[2] EXCEPT !.ExpiresAt = now - 1]
           IN  /\ pair[1].ExpiresAt = now + AccessTTL
               /\ pair[2].ExpiresAt = now + RefreshTTL
               /\ AccessTTL * HoursPerDay = TokenDuration
               /\ RefreshTTL = RefreshTokenDays
               /\ ValidateToken(late, now).err = ""
               /\ ValidateToken(late, now).claims = late
               /\ ValidateToken(early, now).err = ErrTokenExpired

\* C16 witness: of the tokens handed out, one expires one unit after the
\* current time and verifies, and one expired one unit before it and fails
C16_Witness ==
    /\ \E t \in issued :
           t.ExpiresAt = now + 1 /\ ValidateToken(t, now).err = ""
    /\ \E t \in issued :
           t.ExpiresAt = now - 1 /\ ValidateToken(t, now).err = ErrTokenExpired

\* C17: the guard refuses a refresh token (a token with a jti) presented as
\* the bearer credential, and refresh refuses an access token (a token
\* without a jti, the OAuth callback's included)
C17_KindsNotInterchangeable ==
    \A t \in issued :
        /\ t.ID # 0 =>
               Protected([present |-> TRUE, prefix |-> "Bearer ", token |-> t],
                         now).status = StatusUnauthorized
        /\ t.ID = 0 =>
               RefreshTokenHandler(users, blocked, t, now, minted + 1).status
                   # StatusOK

\* C18: every ledger row carries the expiry of its token, so whenever a row
\* no longer counts because its expiry has passed, or a sweep at the current
\* time removes it or has removed it, the token fails verification as
\* expired and a refresh with it is refused
C18_ExpiredEntryNeverReenables ==
    /\ \A b \in blocked : b.ExpiresAt = b.Token.ExpiresAt
    /\ \A b \in blocked :
           (~IsRefreshTokenBlocked(blocked, b.Token, now)
               \/ b \notin CleanupBlockedTokens(blocked, now)) =>
              /\ ValidateToken(b.Token, now).err = ErrTokenExpired
              /\ RefreshTokenHandler(users, blocked, b.Token, now,
                                     minted + 1).status = StatusUnauthorized
              /\ RefreshTokenHandler(users, CleanupBlockedTokens(blocked, now),
                                     b.Token, now, minted + 1).status
                     = StatusUnauthorized
    /\ \A t \in loggedOut :
           t.ExpiresAt <= now =>
              /\ ~IsRefreshTokenBlocked(blocked, t, now)
              /\ ValidateToken(t, now).err = ErrTokenExpired
              /\ RefreshTokenHandler(users, blocked, t, now,
                                     minted + 1).status = StatusUnauthorized

\* C18 witness: of two revoked tokens of stored users, one has lost its row
\* after its expiry and one still has a row that no longer counts, and
\* refresh refuses both
C18_Witness ==
    \E t1 \in loggedOut, t2 \in loggedOut :
        /\ t1.UserID \in DOMAIN users /\ t2.UserID \in DOMAIN users
        /\ t1.ExpiresAt < now
        /\ ~\E b \in blocked : b.Token = t1
        /\ \E b \in blocked : b.Token = t2
        /\ ~IsRefreshTokenBlocked(blocked, t2, now)
        /\ RefreshTokenHandler(users, blocked, t1, now, minted + 1).status
               = StatusUnauthorized
        /\ RefreshTokenHandler(users, blocked, t2, now, minted + 1).status
               = StatusUnauthorized

\* The step in which the sweep's DELETE runs
Sweeps == purgeAt # NotPurging /\ purgeAt' = NotPurging

\* What the query in flight answers on a ledger
Answer(bl) == IsRefreshTokenBlocked(bl, query.token, query.at)

\* C19 as stated: the sweep removes only rows whose expiry is strictly in
\* the past, keeps every other row, and changes the result of no ledger
\* query, neither of one made at the time of the DELETE nor of one in
\* flight
C19_PurgeNeverChangesIsRevoked ==
    [][Sweeps =>
          /\ blocked' \subseteq blocked
          /\ \A b \in blocked \ blocked' : b.ExpiresAt < now
          /\ \A b \in blocked : ~(b.ExpiresAt < now) => b \in blocked'
          /\ \A t \in issued :
                 IsRefreshTokenBlocked(blocked', t, now)
                     = IsRefreshTokenBlocked(blocked, t, now)
          /\ query.result = "pending" => Answer(blocked') = Answer(blocked)]_vars

\* C19 amended: as above, but for a query in flight only when it took its
\* time no earlier than the sweep took its own; a query that took its time
\* earlier can change from revoked to not revoked, and only for a token that
\* is expired when the DELETE runs
C19_PurgeKeepsCountedEntries ==
    [][Sweeps =>
          /\ blocked' \subseteq blocked
          /\ \A b \in blocked \ blocked' : b.ExpiresAt < now
          /\ \A b \in blocked : ~(b.ExpiresAt < now) => b \in blocked'
          /\ \A t \in issued :
                 IsRefreshTokenBlocked(blocked', t, now)
                     = IsRefreshTokenBlocked(blocked, t, now)
          /\ query.result = "pending" =>
                 /\ query.at >= purgeAt => Answer(blocked') = Answer(blocked)
                 /\ Answer(blocked') # Answer(blocked) =>
                        /\ Answer(blocked) /\ ~Answer(blocked')
                        /\ ValidateToken(query.token, now).err = ErrTokenExpired]_vars

\* C19 witness: a sweep has removed the row of a revoked token while a query
\* for that token was in flight, and has kept the row of another
C19_Witness ==
    /\ last = [op |-> "purge", status |-> StatusOK]
    /\ query.result = "pending"
    /\ query.token \in loggedOut
    /\ ~\E b \in blocked : b.Token = query.token
    /\ blocked # {}

\* The ids ledger rows can have: every minted token revoked once
RowIDs == 1..(2 * MaxMints)
Row(k) == \E b \in blocked : b.ID = k

\* C20: in the running server every ledger row is eventually gone
C20_EntriesEventuallyCollected == \A k \in RowIDs : Row(k) ~> ~Row(k)

\* C21: the user id of every ledger row is the subject id of the token the
\* row revokes
C21_EntryOwnedByTokenSubject ==
    \A b \in blocked : b.UserID = b.Token.UserID

\* The requests that are administrative updates of a capability set
AdminUpdates == {"accesses", "cli-make-admin", "cli-remove-admin"}

C23_IdentityUnique ==
    /\ \A i, j \in DOMAIN users :
           (users[i].Email = users[j].Email
               /\ users[i].Provider = users[j].Provider) => i = j
    /\ \A i \in DOMAIN users :
           users[i].Provider # "local" => users[i].Password = NoPassword

\* Two register requests for one email both passed the lookup; one of them
\* has inserted its row and the other is about to insert, next to an
\* identity that the callback created
C23_Witness ==
    /\ \E s \in Slots, i \in DOMAIN users :
           /\ inflight[s].op = "register"
           /\ users[i].Email = inflight[s].email
           /\ users[i].Provider = "local"
    /\ \E i \in DOMAIN users : users[i].Provider # "local"

\* The refresh requests that passed validation and minted, and those of
\* them that have been answered
Refreshing == {s \in Slots : inflight[s].op \in {"refresh", "refreshed"}}
Refreshed == {s \in Slots : inflight[s].op = "refreshed"}

\* C24: concurrent refresh calls with valid, unrevoked refresh tokens of one
\* user all succeed, each with its own freshly minted pair; once they are
\* answered the user's slot holds the new refresh token of one of them (of
\* one of the two, when they are two), and every new refresh token remains
\* usable
C24_ConcurrentRefreshes ==
    /\ \A s \in Refreshing, t \in issued :
           (t.ID # 0 /\ t.UserID = inflight[s].userID
               /\ now < t.ExpiresAt /\ t \notin loggedOut) =>
               RefreshTokenHandler(users, blocked, t, now, minted + 1).status
                   = StatusOK
    /\ \A s1, s2 \in Refreshing :
           s1 # s2 =>
               /\ inflight[s1].pair[2].ID # inflight[s2].pair[2].ID
               /\ \A t \in issued \ {inflight[s1].pair[2]} :
                      t.ID # inflight[s1].pair[2].ID
    /\ \A s \in Refreshed :
           LET u == inflight[s].userID
               p == inflight[s].pair
           IN  /\ u \in DOMAIN users =>
                      users[u].RefreshToken \in
                          {<<inflight[x].pair[2]>> :
                              x \in {y \in Refreshed : inflight[y].userID = u}}
               /\ (now < p[2].ExpiresAt /\ p[2] \notin loggedOut) =>
                      RefreshTokenHandler(users, blocked, p[2], now,
                                          minted + 1).status = StatusOK

\* Both requests are answered, and the one that minted first wrote last
C24_Witness ==
    \E s1, s2 \in Refreshed :
        /\ s1 # s2
        /\ inflight[s1].userID = inflight[s2].userID
        /\ inflight[s1].userID \in DOMAIN users
        /\ inflight[s1].pair[2].ID < inflight[s2].pair[2].ID
        /\ users[inflight[s1].userID].RefreshToken = <<inflight[s1].pair[2]>>
        /\ now < inflight[s2].pair[2].ExpiresAt

\* The refresh tokens handed out for user u that have not expired and that no
\* logout has revoked
LiveRefreshTokens(u) ==
    {t \in issued : /\ t.ID # 0
                    /\ t.UserID = u
                    /\ now < t.ExpiresAt
                    /\ t \notin loggedOut}

\* C25: a successful login puts its new refresh token in the user's slot and
\* leaves the ledger as it was; every unexpired, unrevoked refresh token the
\* user was given before, which the slot no longer holds, still refreshes
\* with 200, after the login as before it
C25_SlotNeverConsulted ==
    /\ \A e \in Emails, p \in Passwords :
           LET r == LoginHandler(users, blocked, e, p, now, minted + 1)
           IN  r.status = StatusOK =>
                  /\ r.blocked = blocked
                  /\ \A i \in DOMAIN r.users :
                         r.users[i].Email = e =>
                            /\ r.users[i].RefreshToken = <<r.out[2]>>
                            /\ \A t \in LiveRefreshTokens(i) :
                                   /\ r.users[i].RefreshToken # <<t>>
                                   /\ RefreshTokenHandler(
                                          r.users, r.blocked, t, now,
                                          minted + 2).status = StatusOK
    /\ \A i \in DOMAIN users :
           \A t \in LiveRefreshTokens(i) :
               RefreshTokenHandler(users, blocked, t, now, minted + 1).status
                   = StatusOK

\* A user has logged in twice: the refresh token of the first login is not
\* the one in the slot, and it refreshes
C25_Witness ==
    \E i \in DOMAIN users : \E t \in LiveRefreshTokens(i) :
        /\ last = [op |-> "login", status |-> StatusOK]
        /\ users[i].RefreshToken # <<t>>
        /\ users[i].RefreshToken # NoToken
        /\ RefreshTokenHandler(users, blocked, t, now, minted + 1).status
               = StatusOK

\* C26: while the active flag of an identity is false, no login with its
\* email is answered with tokens, and no refresh with a refresh token that
\* was issued to it is answered with tokens
C26_DeactivatedMintsNothing ==
    \A i \in DOMAIN users :
        ~users[i].IsActive =>
            /\ \A p \in Passwords :
                   LET r == LoginHandler(users, blocked, users[i].Email, p,
                                         now, minted + 1)
                   IN  r.status # StatusOK /\ r.out = <<>>
            /\ \A t \in issued :
                   (t.ID # 0 /\ t.UserID = i) =>
                       LET r == RefreshTokenHandler(users, blocked, t, now,
                                                    minted + 1)
                       IN  r.status # StatusOK /\ r.out = <<>>

\* What a refresh request with token t is answered in the database (us, bl)
RefreshAnswer(us, bl, t) ==
    LET r == RefreshTokenHandler(us, bl, t, now, minted + 1)
    IN  [status |-> r.status, err |-> r.err, out |-> r.out]

\* C27: a logout answered 200 adds to the ledger one row, for the presented
\* refresh token t, and removes none; t no longer refreshes; every other
\* issued token is answered by refresh as before the logout; the users
\* table, the slots included, is unchanged; and the bearer token of the
\* logout request still passes the guard
C27_LogoutRevokesExactlyOne ==
    \A h \in Headers, t \in Presentable :
        LET r == LogoutHandler(users, blocked, h, t, now)
        IN  r.status = StatusOK =>
               /\ blocked \subseteq r.blocked
               /\ \A b \in r.blocked \ blocked : b.Token = t
               /\ Cardinality(r.blocked \ blocked) = 1
               /\ RefreshAnswer(r.users, r.blocked, t).status # StatusOK
               /\ \A t2 \in issued \ {t} :
                      RefreshAnswer(r.users, r.blocked, t2)
                          = RefreshAnswer(users, blocked, t2)
               /\ r.users = users
               /\ Protected(h, now).status = StatusOK

\* A logout has been answered 200 for one of two unexpired refresh tokens of
\* a user; the other one refreshes, and the slot holds the revoked one
C27_Witness ==
    /\ last = [op |-> "logout", status |-> StatusOK]
    /\ \E t \in loggedOut, t2 \in issued \ loggedOut :
           /\ t2.ID # 0
           /\ t2.UserID = t.UserID
           /\ t.UserID \in DOMAIN users
           /\ users[t.UserID].RefreshToken = <<t>>
           /\ RefreshAnswer(users, blocked, t).status = StatusUnauthorized
           /\ RefreshAnswer(users, blocked, t2).status = StatusOK

\* C28: a refresh answered 200 returns a refresh token that expires 7 days
\* after the refresh, whatever the expiry of the presented token, and that
\* carries the presented token's capability snapshot; it leaves the ledger
\* as it was, so the presented token still refreshes; and the new token
\* refreshes in its turn at any time before its own expiry, again with a
\* token that expires 7 days later and carries the same snapshot
C28_RefreshRenewsWithoutBound ==
    \A t \in Presentable :
        LET r == RefreshTokenHandler(users, blocked, t, now, minted + 1)
        IN  r.status = StatusOK =>
               /\ r.out[2].ExpiresAt = now + RefreshTokenDays
               /\ r.out[2].Accesses = t.Accesses
               /\ r.blocked = blocked
               /\ RefreshAnswer(r.users, r.blocked, t).status = StatusOK
               /\ \A c \in now..(now + RefreshTokenDays - 1) :
                      LET n == RefreshTokenHandler(r.users, r.blocked, r.out[2],
                                                   c, minted + 2)
                      IN  /\ n.status = StatusOK
                          /\ n.out[2].ExpiresAt = c + RefreshTokenDays
                          /\ n.out[2].Accesses = t.Accesses

\* A refresh token minted by a refresh outlives the token it was minted
\* from: the older one has expired, the newer one refreshes
C28_Witness ==
    /\ last = [op |-> "refresh", status |-> StatusOK]
    /\ \E t \in issued, n \in issued :
           /\ t.ID # 0 /\ n.ID # 0
           /\ t.UserID = n.UserID
           /\ t.IssuedAt < n.IssuedAt
           /\ n.ExpiresAt = n.IssuedAt + RefreshTokenDays
           /\ t.ExpiresAt <= now
           /\ RefreshAnswer(users, blocked, t).status = StatusUnauthorized
           /\ RefreshAnswer(users, blocked, n).status = StatusOK
           /\ n.Accesses = t.Accesses

\* C29: when `cli -delete` deletes a user, no refresh token that a logout
\* had revoked and that refresh refused before the deletion refreshes after
\* it, and no token whose subject is the deleted user refreshes or passes
\* the guard after it
C29_DeleteLeavesNoCredential ==
    \A e \in Emails :
        LET r == handleDeleteUser(users, blocked, e)
            gone == DOMAIN users \ DOMAIN r.users
        IN  r.status = 0 =>
               /\ \A t \in loggedOut :
                      RefreshAnswer(users, blocked, t).status # StatusOK =>
                          RefreshAnswer(r.users, r.blocked, t).status # StatusOK
               /\ \A t \in issued :
                      t.UserID \in gone =>
                          /\ RefreshAnswer(r.users, r.blocked, t).status
                                 # StatusOK
                          /\ Protected([present |-> TRUE, prefix |-> "Bearer ",
                                        token |-> t], now).status # StatusOK

\* C30: a login that is answered with an error (unknown email, wrong
\* password, deactivated account) leaves the users table as it was, the
\* refresh-token slots included
C30_FailedLoginChangesNothing ==
    \A e \in Emails, p \in Passwords :
        LET r == LoginHandler(users, blocked, e, p, now, minted + 1)
        IN  r.status # StatusOK => r.users = users /\ r.blocked = blocked
====
